---- MODULE Spec2Model ----
(***************************************************************************)
(* A model of the rigid-body physics pipeline of vu/physics (physics.go):  *)
(* Step = predict, broadphase, narrowphase, solve, integrate, clear        *)
(* forces, plus the Collide and Cast queries.                              *)
(*                                                                         *)
(* The world is one-dimensional (the axis gravity acts along) and          *)
(* integer-valued: lengths are in hundredths of a unit, so the default     *)
(* collision margin 0.04 is 4; velocities are lengths per tick.            *)
(* Go's randomised map iteration is modelled by folding every `range`      *)
(* over the overlap table along an arbitrarily chosen order of its keys.   *)
(***************************************************************************)
EXTENDS Integers, Sequences, FiniteSets, TLC

VARIABLES
    body,        \* the caller's bodies: bid -> fields of *body
    gravity,     \* physics.gravity, per Physics instance
    margin,      \* package variable margin (shared by all instances)
    overlapped,  \* physics.overlapped, per instance: pairId -> contactPair
    mf0,         \* physics.mf0, per instance: the scratch manifold
    solTimestep, \* physics.sol.info.timestep, per instance
    pc,          \* position of the single thread inside Step ("idle" outside)
    self,        \* the instance whose Step is running (0 when idle)
    bodies,      \* Step's argument bodies
    timestep,    \* Step's argument timestep
    colliding,   \* Step's local colliding: the bids narrowphase returned
    stages,      \* history: the stages the running Step has completed, in order
    tested,      \* history: pair ids its narrowphase ran an algorithm on
    afterBroad,  \* history: pair ids in the table when its broadphase returned
    solved,      \* history: the timestep its solver ran with (0: did not run)
    entry,       \* history: the bodies as they were when the running Step began
    before,      \* history: the overlap table when the running Step began
    listed,      \* history: the bodies of the last Step's list
    absent,      \* history: bodies listed in an earlier Step and not listed since
    steps,       \* history: number of Step calls so far
    calls,       \* history: number of other calls on the API so far
    ret,         \* history: the last call of the caller and what it returned
    trail        \* history: the contact updates of the running Step, in order

vars == <<body, gravity, margin, overlapped, mf0, solTimestep, pc, self,
          bodies, timestep, colliding, stages, tested, afterBroad, solved,
          entry, before, listed, absent, steps, calls, ret, trail>>

----------------------------------------------------------------------------
(* Bounds of the model.                                                    *)

MaxSteps == 2          \* Step calls in one behaviour
LongSteps == 3         \* Step calls in one behaviour without other calls
MaxCalls == 1          \* other calls of the caller in one behaviour

(* Program constants.                                                      *)

DefaultGravity == -10  \* newPhysics: px.gravity = -10
DefaultMargin == 4     \* var margin float64 = 0.04, in hundredths
MaxPocs == 4           \* a manifold keeps at most four points of contact

(* The bids of the caller's three bodies, the nil Body interface value and *)
(* a body that was created without a shape.                                *)
BodyIds == {1, 2, 3}
PhysicsIds == {1}
NoBody == Cardinality({})
Shapeless == Cardinality(BodyIds) + 1

Timesteps == {1, 2}
Gravities == {0, DefaultGravity}
Margins == {0, DefaultMargin}
Locs == {0, 15, 18, 30}
(* Where the caller has placed bodies 1, 2, 3 before the first Step.       *)
Placements == {<<0, 15, 30>>, <<0, 18, 30>>, <<0, 15, 0>>, <<0, 30, 18>>}
Pushes == {[lfor |-> 30, afor |-> 1]}

Abs(x) == IF x < 0 THEN -x ELSE x
Min(x, y) == IF x <= y THEN x ELSE y
Max(x, y) == IF x >= y THEN x ELSE y
Range(s) == {s[i] : i \in 1..Len(s)}

(* Every order a `range` over a map with these keys can take.              *)
Orders(keys) ==
    {o \in [1..Cardinality(keys) -> keys] : \A i, j \in DOMAIN o : i # j => o[i] # o[j]}

(* The body lists a caller passes to Step: distinct bodies in any order.   *)
BodyLists ==
    UNION {Orders(s) : s \in SUBSET BodyIds}

----------------------------------------------------------------------------
(* Shapes and bodies.                                                      *)

BoxShape == "box"
SphereShape == "sphere"

(* The shape a body was created with: Shape.Type() and the half extent of  *)
(* its bounding box along the axis. Body 2 is a sphere, the others boxes.  *)
ShapeOf(bid) ==
    IF bid = 2 THEN [type |-> SphereShape, ext |-> 5]
    ELSE [type |-> BoxShape, ext |-> 10]

(* Linear damping of a body, in percent of the velocity lost per tick.     *)
DampingOf(bid) == IF bid = 3 THEN 50 ELSE 0

(* NewBody(shape) placed at loc: at rest, immovable until given a mass.    *)
NewBody(bid, loc, mov) ==
    [bid |-> bid, movable |-> mov, world |-> loc, guess |-> loc,
     lvel |-> 0, avel |-> 0, lfor |-> 0, afor |-> 0, iitw |-> 0]

(* Integer division rounding toward zero, as float-to-int truncation.      *)
Trunc(x, d) == IF x >= 0 THEN x \div d ELSE -((-x) \div d)

(* body.applyGravity: gravity acts as a force on a unit mass.              *)
applyGravity(b, g) == [b EXCEPT !.lfor = @ + g]

(* body.integrateVelocities: forces into velocities (inverse mass 1; the   *)
(* world inverse inertia tensor iitw is zero until the first Step ends).   *)
integrateVelocities(b, dt) ==
    [b EXCEPT !.lvel = @ + b.lfor * dt, !.avel = @ + b.iitw * b.afor * dt]

RECURSIVE Damped(_, _, _)
Damped(v, percent, dt) ==
    IF dt = 0 THEN v ELSE Damped(Trunc(v * (100 - percent), 100), percent, dt - 1)

(* body.applyDamping: the velocity decays by the damping factor per tick.  *)
applyDamping(b, dt) == [b EXCEPT !.lvel = Damped(@, DampingOf(b.bid), dt)]

(* body.updatePredictedTransform: guess = world advanced by the velocity.  *)
updatePredictedTransform(b, dt) == [b EXCEPT !.guess = b.world + b.lvel * dt]

(* body.updateWorldTransform: world advanced by the velocity.              *)
updateWorldTransform(b, dt) == [b EXCEPT !.world = @ + b.lvel * dt]

(* body.updateInertiaTensor: iitw is (re)computed from the orientation.    *)
updateInertiaTensor(b) == [b EXCEPT !.iitw = 1]

(* body.clearForces                                                        *)
clearBodyForces(b) == [b EXCEPT !.lfor = 0, !.afor = 0]

(* body.worldAabb: the bounding box at the world transform, no margin.     *)
worldAabb(b) ==
    [lo |-> b.world - ShapeOf(b.bid).ext, hi |-> b.world + ShapeOf(b.bid).ext]

(* body.predictedAabb: the bounding box at the predicted transform, grown  *)
(* by the margin on every side.                                            *)
predictedAabb(b, m) ==
    [lo |-> b.guess - ShapeOf(b.bid).ext - m, hi |-> b.guess + ShapeOf(b.bid).ext + m]

(* Abox.Overlaps: touching boxes overlap.                                  *)
Overlaps(abA, abB) == abA.lo <= abB.hi /\ abB.lo <= abA.hi

(* body.pairId: the 64-bit id of an unordered pair of bodies, the smaller  *)
(* bid in the high word and the larger in the low word: <<high, low>>.     *)
pairId(a, b) == <<Min(a, b), Max(a, b)>>

----------------------------------------------------------------------------
(* Points of contact, manifolds and contact pairs.                         *)

(* A point of contact: the contact points in the local space of each body, *)
(* the normal (from B toward A), the separation depth and the accumulated  *)
(* solver impulse sp.                                                      *)
newPoc == [localA |-> 0, localB |-> 0, normal |-> 0, depth |-> 0, sp |-> 0]

(* newManifold: a scratch manifold of MaxPocs blank points.                *)
newManifold == [i \in 1..MaxPocs |-> newPoc]

(* newContactPair(bodyA, bodyB): references to the two bodies, not yet     *)
(* valid, with an empty persistent manifold.                               *)
newContactPair(bodyA, bodyB) ==
    [bodyA |-> bodyA.bid, bodyB |-> bodyB.bid, valid |-> FALSE, pocs |-> <<>>]

(* The exact test shared by the shape algorithms: the surfaces of a and b  *)
(* are within the margin of each other. One point of contact is written to *)
(* the head of the scratch manifold c and c[0:1] is returned, else c[0:0]. *)
collide(a, b, c, m) ==
    LET n == IF a.world >= b.world THEN 1 ELSE -1
        lA == -n * ShapeOf(a.bid).ext
        lB == n * ShapeOf(b.bid).ext
        d == n * ((a.world + lA) - (b.world + lB))
    IN  IF d <= m
        THEN [bodyA |-> a.bid, bodyB |-> b.bid, len |-> 1,
              c |-> [c EXCEPT ![1] = [localA |-> lA, localB |-> lB, normal |-> n,
                                      depth |-> d, sp |-> 0]]]
        ELSE [bodyA |-> a.bid, bodyB |-> b.bid, len |-> 0, c |-> c]

collideSphereSphere(a, b, c, m) == collide(a, b, c, m)
collideSphereBox(a, b, c, m) == collide(a, b, c, m)
collideBoxBox(a, b, c, m) == collide(a, b, c, m)

(* collideBoxSphere normalises the order: the sphere is returned first.    *)
collideBoxSphere(a, b, c, m) == collideSphereBox(b, a, c, m)

(* collider.algorithms[typeA][typeB]                                       *)
algorithms(typeA, typeB, a, b, c, m) ==
    CASE typeA = SphereShape /\ typeB = SphereShape -> collideSphereSphere(a, b, c, m)
      [] typeA = SphereShape /\ typeB = BoxShape -> collideSphereBox(a, b, c, m)
      [] typeA = BoxShape /\ typeB = SphereShape -> collideBoxSphere(a, b, c, m)
      [] typeA = BoxShape /\ typeB = BoxShape -> collideBoxBox(a, b, c, m)

(* The manifold an algorithm returned: a slice of the scratch manifold.    *)
Manifold(r) == SubSeq(r.c, 1, r.len)

RECURSIVE refreshFrom(_, _, _, _, _)
refreshFrom(pocs, i, worldA, worldB, m) ==
    IF i > Len(pocs) THEN <<>>
    ELSE LET p == pocs[i]
             d == p.normal * ((worldA + p.localA) - (worldB + p.localB))
             rest == refreshFrom(pocs, i + 1, worldA, worldB, m)
         IN  IF d <= m THEN <<[p EXCEPT !.depth = d]>> \o rest ELSE rest

(* contactPair.refreshContacts(worldA, worldB): recompute the depth of     *)
(* each stored point from the given transforms; drop the separated ones.   *)
refreshContacts(cpair, worldA, worldB, m) ==
    [cpair EXCEPT !.pocs = refreshFrom(cpair.pocs, 1, worldA, worldB, m)]

(* contactPair.closestPoint: the stored point at the same place on A.      *)
closestPoint(pocs, poc) ==
    LET hits == {i \in 1..Len(pocs) : pocs[i].localA = poc.localA}
    IN  IF hits = {} THEN 0 ELSE CHOOSE i \in hits : \A j \in hits : i <= j

RECURSIVE mergeFrom(_, _, _)
mergeFrom(pocs, points, i) ==
    IF i > Len(points) THEN pocs
    ELSE LET poc == points[i]
             at == closestPoint(pocs, poc)
             merged ==
                 IF at > 0 THEN [pocs EXCEPT ![at] = [poc EXCEPT !.sp = pocs[at].sp]]
                 ELSE IF Len(pocs) < MaxPocs THEN Append(pocs, poc)
                 ELSE [pocs EXCEPT ![1] = poc]
         IN  mergeFrom(merged, points, i + 1)

(* contactPair.mergeContacts(points): a new point replaces the stored      *)
(* point closest to it and inherits its impulse, or is added.              *)
mergeContacts(cpair, points) ==
    [cpair EXCEPT !.pocs = mergeFrom(cpair.pocs, points, 1)]

(* Map helpers: pairs[k] = v and delete(pairs, k).                         *)
Put(pairs, k, v) == [x \in DOMAIN pairs \cup {k} |-> IF x = k THEN v ELSE pairs[x]]
Delete(pairs, k) == [x \in DOMAIN pairs \ {k} |-> pairs[x]]
EmptyMap == [x \in {} |-> 0]

----------------------------------------------------------------------------
(* The solver.                                                             *)

(* One sequential impulse at a point of contact: the approaching part of   *)
(* the relative velocity along the normal is removed (no restitution),     *)
(* shared between the movable bodies; the impulse accumulates in sp.       *)
solvePoc(bd, a, b, poc) ==
    LET rel == (bd[a].lvel - bd[b].lvel) * poc.normal
        j == IF rel < 0 THEN -rel ELSE 0
        toB == IF ~bd[b].movable THEN 0 ELSE IF ~bd[a].movable THEN j ELSE j \div 2
        toA == IF ~bd[a].movable THEN 0 ELSE j - toB
    IN  [body |-> [bd EXCEPT ![a].lvel = @ + poc.normal * toA,
                             ![b].lvel = @ - poc.normal * toB],
         poc |-> [poc EXCEPT !.sp = @ + j]]

RECURSIVE solvePocs(_, _, _, _, _)
solvePocs(bd, a, b, pocs, i) ==
    IF i > Len(pocs) THEN [body |-> bd, pocs |-> pocs]
    ELSE LET r == solvePoc(bd, a, b, pocs[i])
         IN  solvePocs(r.body, a, b, [pocs EXCEPT ![i] = r.poc], i + 1)

(* The pair ids of a table in ascending order.                             *)
KeyLess(k1, k2) == k1[1] < k2[1] \/ (k1[1] = k2[1] /\ k1[2] < k2[2])
Sorted(keys) ==
    CHOOSE o \in Orders(keys) : \A i, j \in DOMAIN o : i < j => KeyLess(o[i], o[j])

RECURSIVE solvePairs(_, _, _, _, _)
solvePairs(bd, pairs, touching, order, i) ==
    IF i > Len(order) THEN [body |-> bd, pairs |-> pairs]
    ELSE LET cpair == pairs[order[i]]
         IN  IF cpair.bodyA \in touching /\ cpair.bodyB \in touching
             THEN LET r == solvePocs(bd, cpair.bodyA, cpair.bodyB, cpair.pocs, 1)
                  IN  solvePairs(r.body, [pairs EXCEPT ![order[i]].pocs = r.pocs],
                                 touching, order, i + 1)
             ELSE solvePairs(bd, pairs, touching, order, i + 1)

(* solver.solve(colliding, pairs): resolves the contacts of every pair     *)
(* whose bodies are colliding, mutating velocities and impulses in place.  *)
solve(touching, pairs, bd) ==
    solvePairs(bd, pairs, touching, Sorted(DOMAIN pairs), 1)

----------------------------------------------------------------------------
(* physics.go: the stages of Step as functions of the state they read.     *)

(* A prediction that does not look at the movable flag.                     *)
predictBodyUnguarded(b, g, dt) ==
    updatePredictedTransform(
        applyDamping(integrateVelocities(applyGravity([b EXCEPT !.guess = b.world], g), dt),
                     dt), dt)

(* A prediction under the default gravity, whatever px.gravity is.         *)
predictBodyDefaultGravity(b, g, dt) ==
    LET b0 == [b EXCEPT !.guess = b.world]
    IN  IF b.movable
        THEN updatePredictedTransform(
                 applyDamping(integrateVelocities(applyGravity(b0, DefaultGravity), dt), dt),
                 dt)
        ELSE b0

(* The body of the loop of predictBodyLocations, for one body.             *)
predictBody(b, g, dt) ==
    LET b0 == [b EXCEPT !.guess = b.world]
    IN  IF b.movable
        THEN updatePredictedTransform(
                 applyDamping(integrateVelocities(applyGravity(b0, g), dt), dt), dt)
        ELSE b0

(* physics.predictBodyLocations(bodies, dt)                                *)
predictBodyLocations(bd, list, g, dt) ==
    [b \in DOMAIN bd |-> IF b \in Range(list) THEN predictBody(bd[b], g, dt) ELSE bd[b]]

(* A first loop that leaves the flags as the last pass set them.           *)
invalidateNothing(pairs, order, i) == pairs

(* broadphase, first loop: every pair of the table is marked invalid.      *)
RECURSIVE invalidate(_, _, _)
invalidate(pairs, order, i) ==
    IF i > Len(order) THEN pairs
    ELSE invalidate([pairs EXCEPT ![order[i]].valid = FALSE], order, i + 1)

(* A pair id that keeps the order of the two bodies.                       *)
broadPairIdOrdered(bodyA, bodyB) == <<bodyA.bid, bodyB.bid>>

(* broadphase: pairId = bodyA.pairId(bodyB)                                *)
broadPairId(bodyA, bodyB) == pairId(bodyA.bid, bodyB.bid)

(* An inner loop that holds every existing pair, overlapping or not.       *)
broadPairHold(pairs, bodyA, bodyB, m) ==
    IF bodyA.movable \/ bodyB.movable
    THEN LET id == broadPairId(bodyA, bodyB)
         IN  IF id \in DOMAIN pairs
             THEN [pairs EXCEPT ![id].valid = TRUE]
             ELSE IF Overlaps(worldAabb(bodyA), worldAabb(bodyB))
                  THEN Put(pairs, id, [newContactPair(bodyA, bodyB) EXCEPT !.valid = TRUE])
                  ELSE pairs
    ELSE pairs

(* An inner loop that, having removed an existing pair, goes on to the     *)
(* test for a new pair.                                                    *)
broadPairRecreate(pairs, bodyA, bodyB, m) ==
    IF bodyA.movable \/ bodyB.movable
    THEN LET id == broadPairId(bodyA, bodyB)
             held == IF id \in DOMAIN pairs
                        /\ ~Overlaps(predictedAabb(bodyA, m), predictedAabb(bodyB, m))
                     THEN Delete(pairs, id)
                     ELSE pairs
         IN  IF id \in DOMAIN held
             THEN [held EXCEPT ![id].valid = TRUE]
             ELSE IF Overlaps(worldAabb(bodyA), worldAabb(bodyB))
                  THEN Put(held, id, [newContactPair(bodyA, bodyB) EXCEPT !.valid = TRUE])
                  ELSE held
    ELSE pairs

(* An inner loop that checks two bodies whether or not one can move.       *)
broadPairAny(pairs, bodyA, bodyB, m) ==
    LET id == broadPairId(bodyA, bodyB)
    IN  IF id \in DOMAIN pairs
        THEN IF Overlaps(predictedAabb(bodyA, m), predictedAabb(bodyB, m))
             THEN [pairs EXCEPT ![id].valid = TRUE]
             ELSE Delete(pairs, id)
        ELSE IF Overlaps(worldAabb(bodyA), worldAabb(bodyB))
             THEN Put(pairs, id, [newContactPair(bodyA, bodyB) EXCEPT !.valid = TRUE])
             ELSE pairs

(* broadphase, the body of the inner loop for bodyA, bodyB.                *)
broadPair(pairs, bodyA, bodyB, m) ==
    IF bodyA.movable \/ bodyB.movable
    THEN LET id == broadPairId(bodyA, bodyB)
         IN  IF id \in DOMAIN pairs
             THEN IF Overlaps(predictedAabb(bodyA, m), predictedAabb(bodyB, m))
                  THEN [pairs EXCEPT ![id].valid = TRUE]
                  ELSE Delete(pairs, id)
             ELSE IF Overlaps(worldAabb(bodyA), worldAabb(bodyB))
                  THEN Put(pairs, id, [newContactPair(bodyA, bodyB) EXCEPT !.valid = TRUE])
                  ELSE pairs
    ELSE pairs

(* broadphase, the two nested loops over bodies[cnt1] and bodies[cnt1+1:]. *)
RECURSIVE broadScan(_, _, _, _, _, _)
broadScan(pairs, list, bd, m, cnt1, cnt2) ==
    IF cnt1 > Len(list) THEN pairs
    ELSE IF cnt2 > Len(list) THEN broadScan(pairs, list, bd, m, cnt1 + 1, cnt1 + 2)
    ELSE broadScan(broadPair(pairs, bd[list[cnt1]], bd[list[cnt2]], m),
                   list, bd, m, cnt1, cnt2 + 1)

(* A purge that deletes nothing.                                           *)
purgeNothing(pairs, order, i) == pairs

(* broadphase, last loop: the pairs still invalid are deleted.             *)
RECURSIVE purge(_, _, _)
purge(pairs, order, i) ==
    IF i > Len(order) THEN pairs
    ELSE purge(IF ~pairs[order[i]].valid THEN Delete(pairs, order[i]) ELSE pairs,
               order, i + 1)

(* The table before the last loop of broadphase.                           *)
broadMarked(list, pairs, bd, m, order1) ==
    broadScan(invalidate(pairs, order1, 1), list, bd, m, 1, 2)

(* physics.broadphase(bodies, pairs), the map loops iterating in order1    *)
(* and order2.                                                             *)
broadphase(list, pairs, bd, m, order1, order2) ==
    purge(broadMarked(list, pairs, bd, m, order1), order2, 1)

(* The two calls narrowphase makes on a pair in contact, in order:         *)
(* cpair.refreshContacts(worldA, worldB) with the transforms it passes and *)
(* the bodies the pair stores by then, cpair.mergeContacts(manifold) with  *)
(* the number of points of the manifold.                                   *)
updates(id, cpair, worldA, worldB, len) ==
    <<[op |-> "refresh", id |-> id, worldA |-> worldA, worldB |-> worldB,
       bodyA |-> cpair.bodyA, bodyB |-> cpair.bodyB],
      [op |-> "merge", id |-> id, len |-> len]>>

(* A loop body that starts the colliding set afresh for every pair.        *)
narrowPairFresh(st, id, bd, m) ==
    LET cpair == st.pairs[id]
        bodyA == bd[cpair.bodyA]
        bodyB == bd[cpair.bodyB]
        r == algorithms(ShapeOf(bodyA.bid).type, ShapeOf(bodyB.bid).type,
                        bodyA, bodyB, st.mf0, m)
        swapped == [cpair EXCEPT !.bodyA = r.bodyA, !.bodyB = r.bodyB]
    IN  IF r.len > 0
        THEN [pairs |-> [st.pairs EXCEPT ![id] =
                            mergeContacts(
                                refreshContacts(swapped, bodyA.world, bodyB.world, m),
                                Manifold(r))],
              colliding |-> {bodyA.bid, bodyB.bid},
              mf0 |-> r.c,
              trail |-> st.trail \o updates(id, swapped, bodyA.world, bodyB.world, r.len)]
        ELSE [pairs |-> [st.pairs EXCEPT ![id] = swapped],
              colliding |-> st.colliding,
              mf0 |-> r.c,
              trail |-> st.trail]

(* A loop body that reports the bodies of every pair it tests.             *)
narrowPairAlways(st, id, bd, m) ==
    LET cpair == st.pairs[id]
        bodyA == bd[cpair.bodyA]
        bodyB == bd[cpair.bodyB]
        r == algorithms(ShapeOf(bodyA.bid).type, ShapeOf(bodyB.bid).type,
                        bodyA, bodyB, st.mf0, m)
        swapped == [cpair EXCEPT !.bodyA = r.bodyA, !.bodyB = r.bodyB]
    IN  [pairs |-> [st.pairs EXCEPT ![id] =
                       IF r.len > 0
                       THEN mergeContacts(
                                refreshContacts(swapped, bodyA.world, bodyB.world, m),
                                Manifold(r))
                       ELSE swapped],
         colliding |-> st.colliding \cup {bodyA.bid, bodyB.bid},
         mf0 |-> r.c,
         trail |-> IF r.len > 0
                   THEN st.trail \o updates(id, swapped, bodyA.world, bodyB.world, r.len)
                   ELSE st.trail]

(* A loop body that keeps the order of the bodies the pair had.            *)
narrowPairNoSwap(st, id, bd, m) ==
    LET cpair == st.pairs[id]
        bodyA == bd[cpair.bodyA]
        bodyB == bd[cpair.bodyB]
        r == algorithms(ShapeOf(bodyA.bid).type, ShapeOf(bodyB.bid).type,
                        bodyA, bodyB, st.mf0, m)
    IN  IF r.len > 0
        THEN [pairs |-> [st.pairs EXCEPT ![id] =
                            mergeContacts(
                                refreshContacts(cpair, bodyA.world, bodyB.world, m),
                                Manifold(r))],
              colliding |-> st.colliding \cup {bodyA.bid, bodyB.bid},
              mf0 |-> r.c,
              trail |-> st.trail \o updates(id, cpair, bodyA.world, bodyB.world, r.len)]
        ELSE [pairs |-> st.pairs,
              colliding |-> st.colliding,
              mf0 |-> r.c,
              trail |-> st.trail]

(* A loop body that merges the new points before it refreshes the old.     *)
narrowPairMergeFirst(st, id, bd, m) ==
    LET cpair == st.pairs[id]
        bodyA == bd[cpair.bodyA]
        bodyB == bd[cpair.bodyB]
        r == algorithms(ShapeOf(bodyA.bid).type, ShapeOf(bodyB.bid).type,
                        bodyA, bodyB, st.mf0, m)
        swapped == [cpair EXCEPT !.bodyA = r.bodyA, !.bodyB = r.bodyB]
        calls2 == updates(id, swapped, bodyA.world, bodyB.world, r.len)
    IN  IF r.len > 0
        THEN [pairs |-> [st.pairs EXCEPT ![id] =
                            refreshContacts(mergeContacts(swapped, Manifold(r)),
                                            bodyA.world, bodyB.world, m)],
              colliding |-> st.colliding \cup {bodyA.bid, bodyB.bid},
              mf0 |-> r.c,
              trail |-> st.trail \o <<calls2[2], calls2[1]>>]
        ELSE [pairs |-> [st.pairs EXCEPT ![id] = swapped],
              colliding |-> st.colliding,
              mf0 |-> r.c,
              trail |-> st.trail]

(* A loop body that empties the persistent manifold of a pair the          *)
(* algorithm finds without contact.                                        *)
narrowPairClear(st, id, bd, m) ==
    LET cpair == st.pairs[id]
        bodyA == bd[cpair.bodyA]
        bodyB == bd[cpair.bodyB]
        r == algorithms(ShapeOf(bodyA.bid).type, ShapeOf(bodyB.bid).type,
                        bodyA, bodyB, st.mf0, m)
        swapped == [cpair EXCEPT !.bodyA = r.bodyA, !.bodyB = r.bodyB]
    IN  IF r.len > 0
        THEN [pairs |-> [st.pairs EXCEPT ![id] =
                            mergeContacts(
                                refreshContacts(swapped, bodyA.world, bodyB.world, m),
                                Manifold(r))],
              colliding |-> st.colliding \cup {bodyA.bid, bodyB.bid},
              mf0 |-> r.c,
              trail |-> st.trail \o updates(id, swapped, bodyA.world, bodyB.world, r.len)]
        ELSE [pairs |-> [st.pairs EXCEPT ![id] = [swapped EXCEPT !.pocs = <<>>]],
              colliding |-> st.colliding,
              mf0 |-> r.c,
              trail |-> st.trail]

(* narrowphase, the body of the loop for the pair stored under id.         *)
narrowPair(st, id, bd, m) ==
    LET cpair == st.pairs[id]
        bodyA == bd[cpair.bodyA]
        bodyB == bd[cpair.bodyB]
        r == algorithms(ShapeOf(bodyA.bid).type, ShapeOf(bodyB.bid).type,
                        bodyA, bodyB, st.mf0, m)
        swapped == [cpair EXCEPT !.bodyA = r.bodyA, !.bodyB = r.bodyB]
    IN  IF r.len > 0
        THEN [pairs |-> [st.pairs EXCEPT ![id] =
                            mergeContacts(
                                refreshContacts(swapped, bodyA.world, bodyB.world, m),
                                Manifold(r))],
              colliding |-> st.colliding \cup {bodyA.bid, bodyB.bid},
              mf0 |-> r.c,
              trail |-> st.trail \o updates(id, swapped, bodyA.world, bodyB.world, r.len)]
        ELSE [pairs |-> [st.pairs EXCEPT ![id] = swapped],
              colliding |-> st.colliding,
              mf0 |-> r.c,
              trail |-> st.trail]

RECURSIVE narrowLoop(_, _, _, _, _)
narrowLoop(st, order, i, bd, m) ==
    IF i > Len(order) THEN st
    ELSE narrowLoop(narrowPair(st, order[i], bd, m), order, i + 1, bd, m)

(* physics.narrowphase(pairs), the map loop iterating in the given order:  *)
(* the table, the colliding bodies and the scratch manifold it leaves,     *)
(* with the trail of its calls on the pairs.                               *)
narrowphase(pairs, bd, scratch, m, order) ==
    narrowLoop([pairs |-> pairs, colliding |-> {}, mf0 |-> scratch, trail |-> <<>>],
               order, 1, bd, m)

(* The body of the loop of updateBodyLocations, for one body.              *)
updateBody(b, dt) ==
    IF b.movable THEN updateInertiaTensor(updateWorldTransform(b, dt)) ELSE b

(* physics.updateBodyLocations(bodies, timestep)                           *)
updateBodyLocations(bd, list, dt) ==
    [b \in DOMAIN bd |-> IF b \in Range(list) THEN updateBody(bd[b], dt) ELSE bd[b]]

(* A clearForces that skips the bodies that cannot move.                   *)
clearForcesMovable(bd, list) ==
    [b \in DOMAIN bd |->
        IF b \in Range(list) /\ bd[b].movable THEN clearBodyForces(bd[b]) ELSE bd[b]]

(* physics.clearForces(bodies)                                             *)
clearForces(bd, list) ==
    [b \in DOMAIN bd |-> IF b \in Range(list) THEN clearBodyForces(bd[b]) ELSE bd[b]]

(* Step: `if len(px.overlapped) > 0` decides whether narrowphase runs.     *)
afterBroadphase(pairs) ==
    IF Cardinality(DOMAIN pairs) > 0 THEN "narrowphase" ELSE "update"

(* A Step that runs the solver after every narrowphase.                    *)
afterNarrowphaseAlways(touching) == "solve"

(* Step: `len(colliding) > 0` decides whether the solver runs.             *)
afterNarrowphase(touching) ==
    IF Cardinality(touching) > 0 THEN "solve" ELSE "update"

----------------------------------------------------------------------------
(* The queries. A Go panic (a failed type assertion, a method call on a    *)
(* nil interface) is the result Panic.                                     *)

Panic == [panic |-> TRUE]

(* Body.Shape() of a query argument: nil for a body created shapeless.     *)
HasShape(b) == b \in BodyIds

(* physics.Collide(a, b): the type assertion of a or b to a body pointer   *)
(* panics on a nil interface and aa.shape.Type() on a nil shape; otherwise *)
(* the algorithm of the two shape types runs on the scratch px.mf0.        *)
Collide(a, b, bd, scratch, m) ==
    IF a = NoBody \/ b = NoBody THEN Panic
    ELSE IF ~HasShape(a) \/ ~HasShape(b) THEN Panic
    ELSE LET r == algorithms(ShapeOf(a).type, ShapeOf(b).type, bd[a], bd[b], scratch, m)
         IN  [panic |-> FALSE, hit |-> Len(Manifold(r)) > 0, mf0 |-> r.c]

(* A ray is a body with a ray shape: an origin and a direction. The two    *)
(* rays of the model start above every body and point down and up.         *)
Rays == {Shapeless + 1, Shapeless + 2}
RayOf(ray) == [origin |-> 40, dir |-> IF ray = Shapeless + 1 THEN -1 ELSE 1]

NoHit == [panic |-> FALSE, hit |-> FALSE, x |-> 0, y |-> 0, z |-> 0]

(* castRaySphere: the nearest point of the sphere the ray enters.          *)
castRaySphere(ray, b) ==
    LET y == b.world - RayOf(ray).dir * ShapeOf(b.bid).ext
    IN  IF (y - RayOf(ray).origin) * RayOf(ray).dir >= 0
        THEN [panic |-> FALSE, hit |-> TRUE, x |-> 0, y |-> y, z |-> 0]
        ELSE NoHit

(* rayCastAlgorithms: the shape types a ray can be cast against.           *)
rayCastAlgorithms == {SphereShape}

(* A Cast that looks up the algorithm without the three nil checks.        *)
CastUnguarded(ray, b, bd) ==
    IF ray = NoBody \/ b = NoBody \/ ~HasShape(b) THEN Panic
    ELSE IF ShapeOf(b).type \in rayCastAlgorithms
         THEN castRaySphere(ray, bd[b])
         ELSE NoHit

(* Cast(ray, b)                                                            *)
Cast(ray, b, bd) ==
    IF ray # NoBody /\ b # NoBody /\ HasShape(b)
    THEN IF ShapeOf(b).type \in rayCastAlgorithms
         THEN castRaySphere(ray, bd[b])
         ELSE NoHit
    ELSE NoHit

----------------------------------------------------------------------------
(* The state machine.                                                      *)

NoRet == [op |-> "none"]

(* newPhysics for every instance; the caller has created and placed its    *)
(* bodies, each with or without mass, and nothing has moved yet.           *)
Init ==
    /\ \E loc \in Placements :
           body = [b \in BodyIds |-> NewBody(b, loc[b], b # 1)]
    /\ gravity = [p \in PhysicsIds |-> DefaultGravity]
    /\ margin = DefaultMargin
    /\ overlapped = [p \in PhysicsIds |-> EmptyMap]
    /\ mf0 = [p \in PhysicsIds |-> newManifold]
    /\ solTimestep = [p \in PhysicsIds |-> 0]
    /\ pc = "idle"
    /\ self = 0
    /\ bodies = <<>>
    /\ timestep = 0
    /\ colliding = {}
    /\ stages = <<>>
    /\ tested = {}
    /\ afterBroad = {}
    /\ solved = 0
    /\ entry = <<>>
    /\ before = <<>>
    /\ listed = {}
    /\ absent = {}
    /\ steps = 0
    /\ calls = 0
    /\ ret = NoRet
    /\ trail = <<>>

(* px.Step(bodies, timestep) is entered and predictBodyLocations runs.     *)
Step(p, list, dt) ==
    /\ pc = "idle"
    /\ body' = predictBodyLocations(body, list, gravity[p], dt)
    /\ pc' = "broadphase"
    /\ self' = p
    /\ bodies' = list
    /\ timestep' = dt
    /\ stages' = <<"predict">>
    /\ entry' = body
    /\ before' = overlapped[p]
    /\ listed' = Range(list)
    /\ absent' = (absent \cup listed) \ Range(list)
    /\ steps' = steps + 1
    /\ ret' = NoRet
    /\ UNCHANGED <<trail, gravity, margin, overlapped, mf0, solTimestep, colliding, tested,
                   afterBroad, solved, calls>>

(* px.broadphase(bodies, px.overlapped), then `if len(px.overlapped) > 0`. *)
Broadphase ==
    /\ pc = "broadphase"
    /\ \E order1 \in Orders(DOMAIN overlapped[self]) :
         LET marked == broadMarked(bodies, overlapped[self], body, margin, order1)
         IN  \E order2 \in Orders(DOMAIN marked) :
               LET pairs == broadphase(bodies, overlapped[self], body, margin,
                                       order1, order2)
               IN  /\ overlapped' = [overlapped EXCEPT ![self] = pairs]
                   /\ afterBroad' = DOMAIN pairs
                   /\ pc' = afterBroadphase(pairs)
    /\ stages' = Append(stages, "broadphase")
    /\ UNCHANGED <<trail, body, gravity, margin, mf0, solTimestep, self, bodies, timestep,
                   colliding, tested, solved, entry, before, listed, absent, steps, calls, ret>>

(* colliding := px.narrowphase(px.overlapped), then `len(colliding) > 0`.  *)
Narrowphase ==
    /\ pc = "narrowphase"
    /\ \E order \in Orders(DOMAIN overlapped[self]) :
         LET r == narrowphase(overlapped[self], body, mf0[self], margin, order)
         IN  /\ overlapped' = [overlapped EXCEPT ![self] = r.pairs]
             /\ mf0' = [mf0 EXCEPT ![self] = r.mf0]
             /\ colliding' = r.colliding
             /\ tested' = Range(order)
             /\ trail' = r.trail
             /\ pc' = afterNarrowphase(r.colliding)
    /\ stages' = Append(stages, "narrowphase")
    /\ UNCHANGED <<body, gravity, margin, solTimestep, self, bodies, timestep,
                   afterBroad, solved, entry, before, listed, absent, steps, calls, ret>>

(* px.sol.info.timestep = timestep; px.sol.solve(colliding, px.overlapped) *)
Solve ==
    /\ pc = "solve"
    /\ solTimestep' = [solTimestep EXCEPT ![self] = timestep]
    /\ LET r == solve(colliding, overlapped[self], body)
       IN  /\ body' = r.body
           /\ overlapped' = [overlapped EXCEPT ![self] = r.pairs]
    /\ solved' = solTimestep'[self]
    /\ stages' = Append(stages, "solve")
    /\ pc' = "update"
    /\ UNCHANGED <<trail, gravity, margin, mf0, self, bodies, timestep, colliding, tested,
                   afterBroad, entry, before, listed, absent, steps, calls, ret>>

(* px.updateBodyLocations(bodies, timestep)                                *)
UpdateBodyLocations ==
    /\ pc = "update"
    /\ body' = updateBodyLocations(body, bodies, timestep)
    /\ stages' = Append(stages, "integrate")
    /\ pc' = "clear"
    /\ UNCHANGED <<trail, gravity, margin, overlapped, mf0, solTimestep, self, bodies,
                   timestep, colliding, tested, afterBroad, solved, entry, before, listed, absent, steps, calls, ret>>

(* px.clearForces(bodies)                                                  *)
ClearForces ==
    /\ pc = "clear"
    /\ body' = clearForces(body, bodies)
    /\ stages' = Append(stages, "clear")
    /\ pc' = "return"
    /\ UNCHANGED <<trail, gravity, margin, overlapped, mf0, solTimestep, self, bodies,
                   timestep, colliding, tested, afterBroad, solved, entry, before, listed, absent,
                   steps, calls, ret>>

(* Step returns to the caller: its arguments and locals are gone.          *)
Return ==
    /\ pc = "return"
    /\ pc' = "idle"
    /\ self' = 0
    /\ bodies' = <<>>
    /\ timestep' = 0
    /\ colliding' = {}
    /\ stages' = <<>>
    /\ tested' = {}
    /\ afterBroad' = {}
    /\ solved' = 0
    /\ entry' = <<>>
    /\ before' = <<>>
    /\ trail' = <<>>
    /\ UNCHANGED <<body, gravity, margin, overlapped, mf0, solTimestep, listed,
                   absent, steps, calls, ret>>

(* p := NewPhysics(): a further instance, with its own gravity, overlap    *)
(* table, scratch manifold and solver; the package variable margin is not  *)
(* touched.                                                                *)
NewPhysics(p) ==
    /\ pc = "idle"
    /\ p \notin DOMAIN gravity
    /\ gravity' = Put(gravity, p, DefaultGravity)
    /\ overlapped' = Put(overlapped, p, EmptyMap)
    /\ mf0' = Put(mf0, p, newManifold)
    /\ solTimestep' = Put(solTimestep, p, 0)
    /\ ret' = [op |-> "NewPhysics", p |-> p]
    /\ UNCHANGED <<trail, body, margin, pc, self, bodies, timestep, colliding, stages,
                   tested, afterBroad, solved, entry, before, listed, absent, steps,
                   calls>>

(* px.SetGravity(gravity)                                                  *)
SetGravity(p, g) ==
    /\ pc = "idle"
    /\ calls < MaxCalls
    /\ calls' = calls + 1
    /\ gravity' = [gravity EXCEPT ![p] = g]
    /\ ret' = [op |-> "SetGravity", p |-> p, value |-> g]
    /\ UNCHANGED <<trail, body, margin, overlapped, mf0, solTimestep, pc, self, bodies,
                   timestep, colliding, stages, tested, afterBroad, solved, entry, before, listed, absent, steps>>

(* px.SetMargin(collisionMargin): assigns the package variable.            *)
SetMargin(p, m) ==
    /\ pc = "idle"
    /\ calls < MaxCalls
    /\ calls' = calls + 1
    /\ margin' = m
    /\ ret' = [op |-> "SetMargin", p |-> p, value |-> m]
    /\ UNCHANGED <<trail, body, gravity, overlapped, mf0, solTimestep, pc, self, bodies,
                   timestep, colliding, stages, tested, afterBroad, solved, entry, before, listed, absent, steps>>

(* The caller applies a force and a torque to a body between two Steps.    *)
Push(b, f) ==
    /\ pc = "idle"
    /\ calls < MaxCalls
    /\ calls' = calls + 1
    /\ body[b].lfor = 0
    /\ body' = [body EXCEPT ![b].lfor = @ + f.lfor, ![b].afor = @ + f.afor]
    /\ ret' = NoRet
    /\ UNCHANGED <<trail, gravity, margin, overlapped, mf0, solTimestep, pc, self, bodies,
                   timestep, colliding, stages, tested, afterBroad, solved, entry, before, listed, absent, steps>>

(* The caller gives a body a mass (movable) or takes it away (immovable).  *)
SetMaterial(b, mov) ==
    /\ pc = "idle"
    /\ calls < MaxCalls
    /\ calls' = calls + 1
    /\ body[b].movable # mov
    /\ body' = [body EXCEPT ![b].movable = mov]
    /\ ret' = NoRet
    /\ UNCHANGED <<trail, gravity, margin, overlapped, mf0, solTimestep, pc, self, bodies,
                   timestep, colliding, stages, tested, afterBroad, solved, entry, before, listed, absent, steps>>

(* A Collide that handles its pair as narrowphase does: the contacts are   *)
(* merged into the pair of the two bodies when the table holds one.        *)
CollideCallMerging(p, a, b) ==
    /\ pc = "idle"
    /\ calls < MaxCalls
    /\ calls' = calls + 1
    /\ LET r == Collide(a, b, body, mf0[p], margin)
           id == pairId(a, b)
       IN  IF r.panic
           THEN /\ pc' = "panic"
                /\ ret' = [op |-> "Collide", a |-> a, b |-> b, panic |-> TRUE]
                /\ mf0' = mf0
                /\ overlapped' = overlapped
           ELSE /\ pc' = pc
                /\ ret' = [op |-> "Collide", a |-> a, b |-> b, panic |-> FALSE,
                           hit |-> r.hit]
                /\ mf0' = [mf0 EXCEPT ![p] = r.mf0]
                /\ overlapped' =
                       IF r.hit /\ id \in DOMAIN overlapped[p]
                       THEN [overlapped EXCEPT ![p][id] =
                                mergeContacts(
                                    refreshContacts(@, body[a].world, body[b].world, margin),
                                    SubSeq(r.mf0, 1, 1))]
                       ELSE overlapped
    /\ UNCHANGED <<trail, body, gravity, margin, solTimestep, self, bodies,
                   timestep, colliding, stages, tested, afterBroad, solved, entry,
                   before, listed, absent, steps>>

(* hit := px.Collide(a, b), called between two Steps.                      *)
CollideCall(p, a, b) ==
    /\ pc = "idle"
    /\ calls < MaxCalls
    /\ calls' = calls + 1
    /\ LET r == Collide(a, b, body, mf0[p], margin)
       IN  IF r.panic
           THEN /\ pc' = "panic"
                /\ ret' = [op |-> "Collide", a |-> a, b |-> b, panic |-> TRUE]
                /\ mf0' = mf0
           ELSE /\ pc' = pc
                /\ ret' = [op |-> "Collide", a |-> a, b |-> b, panic |-> FALSE,
                           hit |-> r.hit]
                /\ mf0' = [mf0 EXCEPT ![p] = r.mf0]
    /\ UNCHANGED <<trail, body, gravity, margin, overlapped, solTimestep, self, bodies,
                   timestep, colliding, stages, tested, afterBroad, solved, entry, before, listed, absent, steps>>

(* hit, x, y, z := Cast(ray, b), called between two Steps.                 *)
CastCall(ray, b) ==
    /\ pc = "idle"
    /\ calls < MaxCalls
    /\ calls' = calls + 1
    /\ ret' = [op |-> "Cast", ray |-> ray, b |-> b, result |-> Cast(ray, b, body)]
    /\ UNCHANGED <<trail, body, gravity, margin, overlapped, mf0, solTimestep, pc, self,
                   bodies, timestep, colliding, stages, tested, afterBroad, solved,
                   entry, before, listed, absent, steps>>

(* The step machine with the caller's calls between Steps: Collide is      *)
(* called on bodies of the simulation.                                     *)
Next ==
    \/ \E p \in PhysicsIds, list \in BodyLists, dt \in Timesteps :
         steps < MaxSteps /\ Step(p, list, dt)
    \/ Broadphase
    \/ Narrowphase
    \/ Solve
    \/ UpdateBodyLocations
    \/ ClearForces
    \/ Return
    \/ \E p \in PhysicsIds, g \in Gravities : SetGravity(p, g)
    \/ \E p \in PhysicsIds, m \in Margins : SetMargin(p, m)
    \/ \E b \in BodyIds, f \in Pushes : Push(b, f)
    \/ \E b \in BodyIds, mov \in BOOLEAN : SetMaterial(b, mov)
    \/ \E p \in PhysicsIds, a, b \in BodyIds : a # b /\ CollideCall(p, a, b)

Spec == Init /\ [][Next]_vars

(* Longer runs of Steps alone, at a fixed timestep.                        *)
NextLong ==
    \/ \E p \in PhysicsIds, list \in BodyLists :
         steps < LongSteps /\ Step(p, list, 1)
    \/ Broadphase
    \/ Narrowphase
    \/ Solve
    \/ UpdateBodyLocations
    \/ ClearForces
    \/ Return

SpecLong == Init /\ [][NextLong]_vars

(* Two instances in one process: the second is created at any time        *)
(* between the calls and the Steps on the instances that exist.            *)
MultiIds == {1, 2}
MultiLists == {<<1, 2>>, <<2, 1, 3>>}

NextMulti ==
    \/ \E p \in MultiIds : NewPhysics(p)
    \/ \E p \in DOMAIN gravity, list \in MultiLists, dt \in Timesteps :
         steps < MaxSteps /\ Step(p, list, dt)
    \/ Broadphase
    \/ Narrowphase
    \/ Solve
    \/ UpdateBodyLocations
    \/ ClearForces
    \/ Return
    \/ \E p \in DOMAIN gravity, g \in Gravities : SetGravity(p, g)
    \/ \E p \in DOMAIN gravity, m \in Margins : SetMargin(p, m)

SpecMulti == Init /\ [][NextMulti]_vars

(* One movable body alone in the list, at rest, once gravity is set to     *)
(* zero: the stages a Step goes through when its table stays empty.        *)
NextRest ==
    \/ \E p \in PhysicsIds : gravity[p] # 0 /\ SetGravity(p, 0)
    \/ \E p \in PhysicsIds, b \in BodyIds, dt \in Timesteps :
         /\ steps < LongSteps
         /\ gravity[p] = 0
         /\ body[b].movable
         /\ Step(p, <<b>>, dt)
    \/ Broadphase
    \/ UpdateBodyLocations
    \/ ClearForces
    \/ Return

SpecRest == Init /\ [][NextRest]_vars

(* The queries on their own, over every placement of the bodies and every  *)
(* argument: a body of the simulation, a shapeless body, or nil.           *)
QueryBodies == BodyIds \cup {NoBody, Shapeless}

InitQuery ==
    /\ \E loc \in [BodyIds -> Locs] :
           body = [b \in BodyIds |-> NewBody(b, loc[b], b # 1)]
    /\ gravity = [p \in PhysicsIds |-> DefaultGravity]
    /\ margin = DefaultMargin
    /\ overlapped = [p \in PhysicsIds |-> EmptyMap]
    /\ mf0 = [p \in PhysicsIds |-> newManifold]
    /\ solTimestep = [p \in PhysicsIds |-> 0]
    /\ pc = "idle"
    /\ self = 0
    /\ bodies = <<>>
    /\ timestep = 0
    /\ colliding = {}
    /\ stages = <<>>
    /\ tested = {}
    /\ afterBroad = {}
    /\ solved = 0
    /\ entry = <<>>
    /\ before = <<>>
    /\ listed = {}
    /\ absent = {}
    /\ steps = 0
    /\ calls = 0
    /\ ret = NoRet
    /\ trail = <<>>

NextQuery ==
    \/ \E p \in PhysicsIds, a, b \in QueryBodies : CollideCall(p, a, b)
    \/ \E ray \in Rays \cup {NoBody}, b \in QueryBodies : CastCall(ray, b)

SpecQuery == InitQuery /\ [][NextQuery]_vars

----------------------------------------------------------------------------
(* Properties.                                                             *)

(* The pairs of instance p that reference body b.                          *)
PairsOf(p, b) ==
    {k \in DOMAIN overlapped[p] : overlapped[p][k].bodyA = b \/ overlapped[p][k].bodyB = b}

(* The running Step has completed its broadphase pass.                     *)
BroadphaseDone == pc \in {"narrowphase", "solve", "update", "clear", "return"}

(* C1. Pair removal on deletion: once a Step whose list lacks a body that  *)
(* an earlier Step listed has run its broadphase pass, the overlap table   *)
(* holds no pair referencing that body, and none appears in any later Step *)
(* or between Steps for as long as the body stays unlisted.                *)
C1_PairRemoval ==
    pc # "broadphase" => \A p \in PhysicsIds : \A b \in absent : PairsOf(p, b) = {}

(* A pair that was in the table when the Step began references a body the *)
(* list lacks, and the pass has purged it.                                 *)
C1_Witness ==
    /\ BroadphaseDone
    /\ \E k \in DOMAIN before :
           /\ {before[k].bodyA, before[k].bodyB} \cap absent # {}
           /\ k \notin DOMAIN overlapped[self]

(* The state right after the broadphase pass of the running Step.          *)
AfterBroadphase == pc \in {"narrowphase", "update"} /\ Len(stages) = 2

(* The current bounding box of a body grown by the margin.                 *)
marginAabb(b, m) == [lo |-> worldAabb(b).lo - m, hi |-> worldAabb(b).hi + m]

(* C2 as stated, the AABB of a body being its current bounding box: after  *)
(* a broadphase pass (i) two bodies whose boxes grown by the margin do not *)
(* overlap have no pair, and (ii) two listed bodies, one at least movable, *)
(* whose boxes overlap have a pair.                                        *)
C2_Original ==
    AfterBroadphase =>
        \A a, b \in BodyIds :
            a # b =>
                /\ ~Overlaps(marginAabb(body[a], margin), marginAabb(body[b], margin))
                       => pairId(a, b) \notin DOMAIN overlapped[self]
                /\ ( /\ {a, b} \subseteq listed
                     /\ body[a].movable \/ body[b].movable
                     /\ Overlaps(worldAabb(body[a]), worldAabb(body[b])) )
                       => pairId(a, b) \in DOMAIN overlapped[self]

(* C2, amended. Broadphase soundness: after every broadphase pass (i) two  *)
(* bodies whose current boxes (no margin) do not overlap and whose         *)
(* predicted boxes grown by the margin do not overlap have no pair, and    *)
(* (ii) two listed bodies, one at least movable, whose current boxes       *)
(* overlap and whose predicted boxes grown by the margin overlap have one. *)
C2_Soundness ==
    AfterBroadphase =>
        \A a, b \in BodyIds :
            a # b =>
                /\ ( /\ ~Overlaps(worldAabb(body[a]), worldAabb(body[b]))
                     /\ ~Overlaps(predictedAabb(body[a], margin),
                                  predictedAabb(body[b], margin)) )
                       => pairId(a, b) \notin DOMAIN overlapped[self]
                /\ ( /\ {a, b} \subseteq listed
                     /\ body[a].movable \/ body[b].movable
                     /\ Overlaps(worldAabb(body[a]), worldAabb(body[b]))
                     /\ Overlaps(predictedAabb(body[a], margin),
                                 predictedAabb(body[b], margin)) )
                       => pairId(a, b) \in DOMAIN overlapped[self]

(* The pass has dropped a pair of two listed bodies that separated and     *)
(* kept or created another pair.                                           *)
C2_Witness ==
    /\ AfterBroadphase
    /\ DOMAIN overlapped[self] # {}
    /\ \E k \in DOMAIN before :
           /\ k \notin DOMAIN overlapped[self]
           /\ {before[k].bodyA, before[k].bodyB} \subseteq listed
           /\ body[before[k].bodyA].movable \/ body[before[k].bodyB].movable

(* C3. Pair symmetry and uniqueness: the pair id broadphase computes for   *)
(* (a, b) is the one it computes for (b, a), and the overlap table never   *)
(* holds two contact pairs for the same two bodies, in whatever order the  *)
(* bodies are listed from Step to Step.                                    *)
C3_PairSymmetry ==
    /\ \A a, b \in BodyIds : broadPairId(body[a], body[b]) = broadPairId(body[b], body[a])
    /\ \A p \in PhysicsIds : \A k1, k2 \in DOMAIN overlapped[p] :
           k1 # k2 => {overlapped[p][k1].bodyA, overlapped[p][k1].bodyB}
                        # {overlapped[p][k2].bodyA, overlapped[p][k2].bodyB}

(* A pass has found, under the same id, a pair whose bodies are listed in  *)
(* the order opposite to the one the pair stores, beside another pair.     *)
C3_Witness ==
    /\ BroadphaseDone
    /\ Cardinality(DOMAIN overlapped[self]) >= 2
    /\ \E i, j \in 1..Len(bodies) :
           /\ i < j
           /\ pairId(bodies[i], bodies[j]) \in DOMAIN before \cap DOMAIN overlapped[self]
           /\ before[pairId(bodies[i], bodies[j])].bodyA = bodies[j]

(* C4. Collide purity: a call of Collide(a, b) between Steps leaves every  *)
(* body (velocities, transforms) and the overlap table (pair ids, body     *)
(* references, validity flags, persistent manifolds) as they were; all it  *)
(* writes is the scratch manifold, and what narrowphase computes does not  *)
(* depend on what the scratch manifold holds, so the next Step runs as if  *)
(* Collide had never been called.                                          *)
C4_CollidePurity ==
    /\ [][(calls' = calls + 1 /\ ret'.op = "Collide" /\ ~ret'.panic)
             => (body' = body /\ overlapped' = overlapped /\ gravity' = gravity
                 /\ margin' = margin /\ solTimestep' = solTimestep)]_vars
    /\ [](pc = "narrowphase" =>
             \A order \in Orders(DOMAIN overlapped[self]) :
                 LET used == narrowphase(overlapped[self], body, mf0[self], margin, order)
                     fresh == narrowphase(overlapped[self], body, newManifold, margin, order)
                 IN  used.pairs = fresh.pairs /\ used.colliding = fresh.colliding)

(* Collide has reported a collision of two bodies whose pair is in the     *)
(* overlap table with points of contact in its persistent manifold, and    *)
(* has left its own point in the scratch manifold.                         *)
C4_Witness ==
    /\ pc = "idle"
    /\ ret.op = "Collide"
    /\ ~ret.panic
    /\ ret.hit
    /\ \E p \in PhysicsIds :
           /\ pairId(ret.a, ret.b) \in DOMAIN overlapped[p]
           /\ Len(overlapped[p][pairId(ret.a, ret.b)].pocs) > 0
           /\ overlapped[p][pairId(ret.a, ret.b)].pocs[1].depth # mf0[p][1].depth

(* The stages of Step in the order of the code.                            *)
StageOrder == <<"predict", "broadphase", "narrowphase", "solve", "integrate", "clear">>
StageRank(s) == CHOOSE i \in DOMAIN StageOrder : StageOrder[i] = s
Ran(s) == s \in Range(stages)

(* C5. Stage ordering within one Step: the stages run in the order         *)
(* predict, broadphase, narrowphase, solve, integrate, clear forces, one   *)
(* after the other; narrowphase tests only pairs that are in the overlap   *)
(* table after this Step's broadphase; the solver runs only when           *)
(* narrowphase reported a colliding body, with the timestep of this Step;  *)
(* integrate and clear forces run in every Step, last, whether or not      *)
(* narrowphase or the solver ran.                                          *)
C5_StageOrdering ==
    /\ \A i \in DOMAIN stages : stages[i] \in Range(StageOrder)
    /\ \A i, j \in DOMAIN stages : i < j => StageRank(stages[i]) < StageRank(stages[j])
    /\ pc \notin {"idle", "panic"} => Ran("predict")
    /\ pc \notin {"idle", "panic", "broadphase"} => Ran("broadphase")
    /\ Ran("narrowphase") => tested # {} /\ tested \subseteq afterBroad
    /\ Ran("solve") =>
           /\ Ran("narrowphase")
           /\ colliding # {}
           /\ solved = timestep
           /\ solTimestep[self] = timestep
    /\ pc = "return" => Ran("integrate") /\ Ran("clear")

(* A Step about to return after running all six stages.                    *)
C5_Witness == pc = "return" /\ stages = StageOrder

(* C6, as claimed: the prediction pass and the commit pass of Step change  *)
(* nothing of a body whose movable flag is false, and its world transform  *)
(* and velocities when Step returns are those it had when Step was called. *)
C6_Original ==
    /\ [][(pc = "idle" /\ pc' = "broadphase") =>
             \A b \in BodyIds : ~body[b].movable => body'[b] = body[b]]_vars
    /\ [][(pc = "update" /\ pc' = "clear") =>
             \A b \in BodyIds : ~body[b].movable => body'[b] = body[b]]_vars
    /\ [](pc = "return" =>
             \A b \in BodyIds : ~entry[b].movable =>
                 /\ body[b].world = entry[b].world
                 /\ body[b].lvel = entry[b].lvel
                 /\ body[b].avel = entry[b].avel)

(* C6, amended: the prediction pass does one thing to a listed immovable   *)
(* body, it resets the predicted transform to the world transform; it      *)
(* applies no gravity, integrates and damps no velocity and predicts no    *)
(* motion; the commit pass changes nothing of the body; the world          *)
(* transform and the velocities when Step returns are those at the call.   *)
C6_ImmovableUntouched ==
    /\ [][(pc = "idle" /\ pc' = "broadphase") =>
             \A b \in BodyIds : ~body[b].movable =>
                 body'[b] = IF b \in Range(bodies')
                            THEN [body[b] EXCEPT !.guess = body[b].world]
                            ELSE body[b]]_vars
    /\ [][(pc = "update" /\ pc' = "clear") =>
             \A b \in BodyIds : ~body[b].movable => body'[b] = body[b]]_vars
    /\ [](pc = "return" =>
             \A b \in BodyIds : ~entry[b].movable =>
                 /\ body[b].world = entry[b].world
                 /\ body[b].lvel = entry[b].lvel
                 /\ body[b].avel = entry[b].avel
                 /\ body[b].iitw = entry[b].iitw)

(* A Step returns that was given an immovable body under a force, with a   *)
(* velocity and with a predicted transform away from its world transform.  *)
C6_Witness ==
    /\ pc = "return"
    /\ \E b \in Range(bodies) :
           /\ ~entry[b].movable
           /\ entry[b].guess # entry[b].world
           /\ entry[b].lvel # 0
           /\ body[b].guess = body[b].world

(* C7. Forces never leak across steps: when Step returns, the accumulated  *)
(* force and torque of every body of the supplied list are zero, movable   *)
(* or not, colliding or not, whether or not narrowphase and the solver     *)
(* ran.                                                                    *)
C7_ForcesCleared ==
    pc = "return" =>
        \A b \in Range(bodies) : body[b].lfor = 0 /\ body[b].afor = 0

(* A Step returns, without having run the solver, that was given an        *)
(* immovable body with a force and a torque applied to it.                 *)
C7_Witness ==
    /\ pc = "return"
    /\ ~Ran("solve")
    /\ \E b \in Range(bodies) :
           ~body[b].movable /\ entry[b].lfor # 0 /\ entry[b].afor # 0

(* The arguments of a Cast for which it has no algorithm to run.           *)
NothingToCast(ray, b) ==
    \/ ray = NoBody
    \/ b = NoBody
    \/ ~HasShape(b)
    \/ ShapeOf(b).type \notin rayCastAlgorithms

(* C8. Cast(ray, body) never fails; it returns no hit, with the point      *)
(* 0, 0, 0, when the ray is absent, the body is absent, the body has no    *)
(* shape, or no ray-cast algorithm is registered for the type of the       *)
(* body's shape; otherwise it returns what the algorithm registered for    *)
(* that type computes.                                                     *)
C8_CastTotal ==
    ret.op = "Cast" =>
        /\ ~ret.result.panic
        /\ NothingToCast(ret.ray, ret.b) =>
               /\ ~ret.result.hit
               /\ ret.result.x = 0 /\ ret.result.y = 0 /\ ret.result.z = 0
        /\ ~NothingToCast(ret.ray, ret.b) =>
               ret.result = castRaySphere(ret.ray, body[ret.b])

(* A ray has been cast at a body that has no shape.                        *)
C8_Witness ==
    /\ ret.op = "Cast"
    /\ ret.ray \in Rays
    /\ ret.b = Shapeless
    /\ ~ret.result.hit

(* C9, as claimed: Collide(a, b) with a or b absent or without a shape     *)
(* returns false and does not fault.                                       *)
C9_Original ==
    (ret.op = "Collide" /\ (~HasShape(ret.a) \/ ~HasShape(ret.b))) =>
        /\ ~ret.panic
        /\ ~ret.hit

(* C10. Determinism: whatever order the overlap table is iterated in, the  *)
(* broadphase of a Step (its invalidating loop and its purging loop)       *)
(* leaves the same overlap table, and the narrowphase leaves the same      *)
(* overlap table (pair ids, stored body order, manifolds) and reports the  *)
(* same colliding set; the stages that follow iterate no hash map, so the  *)
(* Step ends in the same table and the same body states.                   *)
C10_Determinism ==
    /\ pc = "broadphase" =>
           \A o1, p1 \in Orders(DOMAIN overlapped[self]) :
               LET m1 == broadMarked(bodies, overlapped[self], body, margin, o1)
                   m2 == broadMarked(bodies, overlapped[self], body, margin, p1)
               IN  /\ m1 = m2
                   /\ \A o2, p2 \in Orders(DOMAIN m1) :
                          purge(m1, o2, 1) = purge(m2, p2, 1)
    /\ pc = "narrowphase" =>
           \A o, p \in Orders(DOMAIN overlapped[self]) :
               LET r1 == narrowphase(overlapped[self], body, mf0[self], margin, o)
                   r2 == narrowphase(overlapped[self], body, mf0[self], margin, p)
               IN  r1.pairs = r2.pairs /\ r1.colliding = r2.colliding

(* Narrowphase has gone through a table of three pairs, in one of the six  *)
(* orders, and found bodies colliding in more than one pair.               *)
C10_Witness ==
    /\ pc = "solve"
    /\ Cardinality(tested) = 3
    /\ Cardinality(colliding) = 3

(* What one Step(list, dt) of an instance makes of the bodies bd and the   *)
(* table pairs under gravity g and margin m: the table and the bodies when *)
(* the Step returns.                                                       *)
StepOutcome(list, dt, bd, pairs, g, m) ==
    LET predicted == predictBodyLocations(bd, list, g, dt)
        keys == Sorted(DOMAIN pairs)
        marked == broadMarked(list, pairs, predicted, m, keys)
        broad == purge(marked, Sorted(DOMAIN marked), 1)
        narrow == IF DOMAIN broad # {}
                  THEN narrowphase(broad, predicted, newManifold, m, Sorted(DOMAIN broad))
                  ELSE [pairs |-> broad, colliding |-> {}, mf0 |-> newManifold]
        solved0 == IF narrow.colliding # {}
                   THEN solve(narrow.colliding, narrow.pairs, predicted)
                   ELSE [body |-> predicted, pairs |-> narrow.pairs]
    IN  [pairs |-> solved0.pairs,
         body |-> clearForces(updateBodyLocations(solved0.body, list, dt), list)]

(* The caller has just called SetGravity or SetMargin.                     *)
Configured == pc = "idle" /\ calls' = calls + 1 /\ ret'.op \in {"SetGravity", "SetMargin"}

(* Step is entered on the instance named by the last call of the caller.   *)
SteppedAfter(op) == pc = "idle" /\ pc' = "broadphase" /\ ret.op = op /\ ret.p = self'

(* C11, as claimed: SetGravity or SetMargin called on one instance changes *)
(* nothing of what a Step of any other instance does: for every body list  *)
(* and timestep, the Step of another instance leaves the same overlap      *)
(* table and the same bodies as it would have before the call.             *)
C11_Original ==
    [][Configured =>
         \A q \in DOMAIN gravity \ {ret'.p} :
             \A list \in MultiLists, dt \in Timesteps :
                 StepOutcome(list, dt, body', overlapped'[q], gravity'[q], margin')
               = StepOutcome(list, dt, body, overlapped[q], gravity[q], margin)]_vars

(* C12, as claimed: an instance stepped right after its creation steps     *)
(* with gravity -10 and margin 0.04, whatever was called before on other   *)
(* instances; an instance stepped right after SetGravity or SetMargin was  *)
(* called on it steps with the value set.                                  *)
C12_Original ==
    /\ [][SteppedAfter("NewPhysics") =>
             gravity[self'] = DefaultGravity /\ margin = DefaultMargin]_vars
    /\ [][SteppedAfter("SetGravity") => gravity[self'] = ret.value]_vars
    /\ [][SteppedAfter("SetMargin") => margin = ret.value]_vars

(* C13. Conservation under no contact: with gravity set to zero and body   *)
(* lists holding a single movable body that has no velocity and no force   *)
(* applied, no Step ever changes the world transform or the velocities of  *)
(* a body, neither narrowphase nor the solver ever runs, and the overlap   *)
(* table stays empty.                                                      *)
C13_Conservation ==
    /\ [][\A b \in BodyIds :
             /\ body'[b].world = body[b].world
             /\ body'[b].lvel = body[b].lvel /\ body[b].lvel = 0
             /\ body'[b].avel = body[b].avel /\ body[b].avel = 0]_vars
    /\ [](pc \notin {"narrowphase", "solve"} /\ ~Ran("narrowphase") /\ ~Ran("solve"))
    /\ [](\A p \in PhysicsIds : overlapped[p] = EmptyMap)

(* The last Step of a run is about to return: gravity is zero and the list *)
(* held one movable body, which other bodies overlap where it stands.      *)
C13_Witness ==
    /\ pc = "return"
    /\ steps = LongSteps
    /\ gravity[self] = 0
    /\ Len(bodies) = 1
    /\ body[bodies[1]].movable
    /\ \E b \in BodyIds \ {bodies[1]} : Overlaps(worldAabb(body[b]), worldAabb(body[bodies[1]]))

(* C14. Creation/retention asymmetry: after a broadphase pass, for every   *)
(* two listed bodies of which one at least is movable, a pair that was not *)
(* in the table before the pass is in it if and only if the world AABBs of *)
(* the two bodies (no margin) overlap, and a pair that was in the table    *)
(* before the pass is in it if and only if their predicted AABBs grown by  *)
(* the margin overlap: a pair removed by the second test is not created    *)
(* anew by the first in the same pass.                                     *)
C14_Hysteresis ==
    AfterBroadphase =>
        \A a, b \in listed :
            (a # b /\ (body[a].movable \/ body[b].movable)) =>
                LET id == pairId(a, b)
                    now == id \in DOMAIN overlapped[self]
                IN  /\ id \notin DOMAIN before =>
                           (now <=> Overlaps(worldAabb(body[a]), worldAabb(body[b])))
                    /\ id \in DOMAIN before =>
                           (now <=> Overlaps(predictedAabb(body[a], margin),
                                             predictedAabb(body[b], margin)))

(* A pass has removed the pair of two listed bodies whose world AABBs      *)
(* overlap, and has created the pair of two others.                        *)
C14_Witness ==
    /\ AfterBroadphase
    /\ \E a, b \in listed :
           /\ a # b
           /\ pairId(a, b) \in DOMAIN before
           /\ pairId(a, b) \notin DOMAIN overlapped[self]
           /\ Overlaps(worldAabb(body[a]), worldAabb(body[b]))
    /\ \E k \in DOMAIN overlapped[self] : k \notin DOMAIN before

(* The state right after the narrowphase of the running Step.              *)
AfterNarrowphase == Len(stages) = 3 /\ stages[3] = "narrowphase"

(* The collision algorithm of the two bodies of a pair finds them in       *)
(* contact where they stand.                                               *)
InContact(cpair) ==
    algorithms(ShapeOf(cpair.bodyA).type, ShapeOf(cpair.bodyB).type,
               body[cpair.bodyA], body[cpair.bodyB], newManifold, margin).len > 0

(* C15. Colliding set exactness: the set narrowphase returns holds a body  *)
(* if and only if the body belongs to a pair of the overlap table whose    *)
(* collision algorithm returned one or more points of contact in this      *)
(* Step; a pair without a point of contact adds no body and stays in the   *)
(* table; narrowphase neither adds nor removes an entry of the table.      *)
C15_CollidingExact ==
    AfterNarrowphase =>
        /\ colliding = UNION {{overlapped[self][k].bodyA, overlapped[self][k].bodyB} :
                                k \in {i \in DOMAIN overlapped[self] :
                                          InContact(overlapped[self][i])}}
        /\ DOMAIN overlapped[self] = afterBroad

(* Narrowphase has found bodies in contact and has also tested a pair that *)
(* is not: a body of that pair is not in the colliding set.                *)
C15_Witness ==
    /\ AfterNarrowphase
    /\ colliding # {}
    /\ \E k \in DOMAIN overlapped[self] :
           /\ ~InContact(overlapped[self][k])
           /\ {overlapped[self][k].bodyA, overlapped[self][k].bodyB} \ colliding # {}

(* The two bodies of a pair.                                               *)
BodiesOf(cpair) == {cpair.bodyA, cpair.bodyB}

(* Broadphase visits a pair in its nested loops: both bodies are in the    *)
(* list and one at least is movable.                                       *)
Revisited(cpair) ==
    /\ BodiesOf(cpair) \subseteq listed
    /\ body[cpair.bodyA].movable \/ body[cpair.bodyB].movable

(* C16. Validity after broadphase: when a broadphase pass returns, every   *)
(* pair of the overlap table has its validity flag set and both of its     *)
(* bodies in the list given to the pass, and every pair of the table the   *)
(* pass did not visit again is gone.                                       *)
C16_ValidAfterBroadphase ==
    AfterBroadphase =>
        /\ \A k \in DOMAIN overlapped[self] :
               /\ overlapped[self][k].valid
               /\ BodiesOf(overlapped[self][k]) \subseteq listed
        /\ \A k \in DOMAIN before :
               ~Revisited(before[k]) => k \notin DOMAIN overlapped[self]

(* A pass has kept one pair of the table it was given, visiting it again,  *)
(* and has removed another whose body is no longer in the list.            *)
C16_Witness ==
    /\ AfterBroadphase
    /\ \E k \in DOMAIN before : k \in DOMAIN overlapped[self]
    /\ \E k \in DOMAIN before :
           /\ ~(BodiesOf(before[k]) \subseteq listed)
           /\ k \notin DOMAIN overlapped[self]

(* C17. No pair of two immovable bodies: after every broadphase pass each  *)
(* pair of the overlap table has a body that is movable; a pair created    *)
(* while one body was movable is gone after the first pass in which both   *)
(* bodies are immovable.                                                   *)
C17_OneMovable ==
    AfterBroadphase =>
        \A k \in DOMAIN overlapped[self] :
            body[overlapped[self][k].bodyA].movable
                \/ body[overlapped[self][k].bodyB].movable

(* A pass has removed the pair of two listed bodies whose boxes overlap    *)
(* and which have both become immovable since the pair was created.        *)
C17_Witness ==
    /\ AfterBroadphase
    /\ \E k \in DOMAIN before :
           /\ BodiesOf(before[k]) \subseteq listed
           /\ ~body[before[k].bodyA].movable
           /\ ~body[before[k].bodyB].movable
           /\ Overlaps(worldAabb(body[before[k].bodyA]), worldAabb(body[before[k].bodyB]))
           /\ k \notin DOMAIN overlapped[self]

(* The order in which the collision algorithm of two bodies returns them.  *)
Returned(a, b) ==
    LET r == algorithms(ShapeOf(a).type, ShapeOf(b).type, body[a], body[b],
                        newManifold, margin)
    IN  <<r.bodyA, r.bodyB>>

(* C18. Swap absorption: narrowphase stores the two bodies of a pair in    *)
(* the order the collision algorithm returned them, keeps the pair under   *)
(* its key and keeps the set of its two bodies; at any time every entry of *)
(* an overlap table is stored under the pair id of its two bodies, so the  *)
(* next broadphase finds the pair and the table holds no second pair of    *)
(* the same two bodies.                                                    *)
C18_SwapAbsorbed ==
    /\ [][pc = "narrowphase" =>
             /\ DOMAIN overlapped'[self] = DOMAIN overlapped[self]
             /\ \A k \in DOMAIN overlapped[self] :
                    /\ BodiesOf(overlapped'[self][k]) = BodiesOf(overlapped[self][k])
                    /\ <<overlapped'[self][k].bodyA, overlapped'[self][k].bodyB>>
                           = Returned(overlapped[self][k].bodyA, overlapped[self][k].bodyB)]_vars
    /\ [](\A p \in DOMAIN overlapped : \A k \in DOMAIN overlapped[p] :
             /\ k = pairId(overlapped[p][k].bodyA, overlapped[p][k].bodyB)
             /\ overlapped[p][k].bodyA # overlapped[p][k].bodyB)
    /\ [](\A p \in DOMAIN overlapped : \A j, k \in DOMAIN overlapped[p] :
             BodiesOf(overlapped[p][j]) = BodiesOf(overlapped[p][k]) => j = k)

(* A broadphase has found again, under its key, a pair that an earlier     *)
(* narrowphase stored with the bodies swapped: the sphere first, the box   *)
(* of the smaller bid second.                                              *)
C18_Witness ==
    /\ AfterBroadphase
    /\ \E k \in DOMAIN before :
           /\ k \in DOMAIN overlapped[self]
           /\ before[k].bodyA > before[k].bodyB
           /\ ShapeOf(before[k].bodyA).type = SphereShape
           /\ ShapeOf(before[k].bodyB).type = BoxShape
           /\ overlapped[self][k] = before[k]

(* The points of contact a pair had when narrowphase came to it: those of  *)
(* the table the Step was given, none for a pair created in this Step.     *)
OldPocs(k) == IF k \in DOMAIN before THEN before[k].pocs ELSE <<>>

(* The points of contact the collision algorithm finds for a pair.         *)
NewPocs(cpair) ==
    Manifold(algorithms(ShapeOf(cpair.bodyA).type, ShapeOf(cpair.bodyB).type,
                        body[cpair.bodyA], body[cpair.bodyB], newManifold, margin))

(* The places in the trail of the calls of one kind on one pair.           *)
Calls(op, k) == {i \in DOMAIN trail : trail[i].op = op /\ trail[i].id = k}

(* C19. Refresh before merge: for every pair whose algorithm returned a    *)
(* point of contact, narrowphase calls refreshContacts once, on the points *)
(* the pair had, and then mergeContacts once, with the new points; it      *)
(* makes neither call on a pair without contact; all this is done when the *)
(* solver starts, and the pair then holds the new points merged into what  *)
(* the refresh left of the old.                                            *)
C19_RefreshBeforeMerge ==
    /\ (Ran("narrowphase") /\ pc \in {"solve", "update"} /\ ~Ran("integrate")) =>
           \A k \in tested :
               IF InContact(overlapped[self][k])
               THEN /\ Cardinality(Calls("refresh", k)) = 1
                    /\ Cardinality(Calls("merge", k)) = 1
                    /\ \A i \in Calls("refresh", k) : i + 1 \in Calls("merge", k)
               ELSE Calls("refresh", k) = {} /\ Calls("merge", k) = {}
    /\ AfterNarrowphase =>
           \A k \in tested : \A i \in Calls("refresh", k) :
               overlapped[self][k].pocs =
                   mergeFrom(refreshFrom(OldPocs(k), 1, trail[i].worldA, trail[i].worldB,
                                         margin),
                             NewPocs(overlapped[self][k]), 1)

(* The solver is about to run on two pairs in contact, one of which had    *)
(* points of contact from the Step before.                                 *)
C19_Witness ==
    /\ pc = "solve"
    /\ Cardinality({k \in tested : Calls("merge", k) # {}}) >= 2
    /\ \E k \in tested : Calls("refresh", k) # {} /\ Len(OldPocs(k)) > 0

(* C20, as claimed: the two world transforms narrowphase passes to         *)
(* refreshContacts are, in order, those of the bodies the pair stores as   *)
(* bodyA and bodyB once the swap of the algorithm is absorbed.             *)
C20_Original ==
    AfterNarrowphase =>
        \A i \in DOMAIN trail :
            trail[i].op = "refresh" =>
                /\ trail[i].worldA = body[trail[i].bodyA].world
                /\ trail[i].worldB = body[trail[i].bodyB].world


(* C21. A pair that stays in the overlap table and whose algorithm returns *)
(* no point of contact in a Step is left by narrowphase with the           *)
(* persistent manifold it had: narrowphase calls neither refreshContacts   *)
(* nor mergeContacts on it, the points of contact and the impulses they    *)
(* accumulated are those the pair came with, and the pair puts no body     *)
(* into the colliding set.                                                 *)
C21_StaleManifoldKept ==
    AfterNarrowphase =>
        \A k \in DOMAIN overlapped[self] :
            ~InContact(overlapped[self][k]) =>
                /\ overlapped[self][k].pocs = OldPocs(k)
                /\ Calls("refresh", k) = {} /\ Calls("merge", k) = {}
                /\ {overlapped[self][k].bodyA, overlapped[self][k].bodyB} \cap colliding
                       \subseteq UNION {{overlapped[self][i].bodyA,
                                         overlapped[self][i].bodyB} :
                                           i \in {j \in DOMAIN overlapped[self] :
                                                     InContact(overlapped[self][j])}}

(* Narrowphase has tested a pair that was in contact in an earlier Step    *)
(* and no longer is: the pair still stores a point of contact with an      *)
(* accumulated impulse, and a body of it is not reported as colliding.     *)
C21_Witness ==
    /\ AfterNarrowphase
    /\ \E k \in DOMAIN overlapped[self] \cap DOMAIN before :
           /\ ~InContact(overlapped[self][k])
           /\ \E i \in DOMAIN overlapped[self][k].pocs : overlapped[self][k].pocs[i].sp > 0
           /\ {overlapped[self][k].bodyA, overlapped[self][k].bodyB} \ colliding # {}

====
